---- MODULE Spec2Model ----
(***************************************************************************)
(* State-machine model of the Sphero controller: the SpheroConnection      *)
(* singleton (sphero_connection.py), the socket handlers that drive it     *)
(* (socket_handlers.py), the shutdown cleanup (__init__.py) and the random *)
(* movement manager (random_movement.py).                                  *)
(*                                                                         *)
(* The server runs in async_mode 'threading' (config.py:20): every handler *)
(* and every background task is a thread, and a thread switch can happen   *)
(* between any two reads or writes of the shared fields.  Each action      *)
(* below is one such step; pc[t] is the position of thread t.              *)
(***************************************************************************)
EXTENDS Integers, Sequences, FiniteSets, TLC

\* ------------------------------------------------------------------ threads
AutoConnectTasks == {"a1", "a2"}
DisconnectHandlers == {"d1"}
CommandThreads == {"c1"}
StartHandlers == {"s1"}
StopHandlers == {"p1"}
LoopTasks == {"l1", "l2"}
StatusHandlers == {"k1"}
Main == "main"
Threads ==
    AutoConnectTasks \cup DisconnectHandlers \cup CommandThreads \cup StartHandlers
        \cup StopHandlers \cup LoopTasks \cup StatusHandlers \cup {Main}

None == "None"
NoHolder == "free"

\* Driver sessions are numbered in the order the driver opens them.
MaxSessions == 2
Session(n) == "session" \o ToString(n)
Sessions == {Session(n) : n \in 1..MaxSessions}

\* The lists of toys scanner.find_toys can hand back (it can also throw).
ScanResults == {<<>>, <<"SB-1">>, <<"SB-2", "SB-1">>}

VARIABLES
    sphero_toy, sphero_api, is_connected, api_instance, connection_lock,
    max_speed, max_brightness,
    stop_random_movement, is_active, random_movement_thread,
    openSessions, nextSession,
    pc, ret, loc, res, raised, emits, exited, superseded, survived

connFields == <<sphero_toy, sphero_api, is_connected, api_instance>>
limits == <<max_speed, max_brightness>>
rmFields == <<stop_random_movement, is_active, random_movement_thread>>
rmGhost == <<superseded, survived>>
driver == <<openSessions, nextSession>>
control == <<pc, ret, loc, res, raised, emits, exited>>
vars == <<connFields, connection_lock, limits, rmFields, rmGhost, driver, control>>

\* ------------------------------------------------------------------ helpers
NoCmd == [op |-> "none", a |-> 0, b |-> 0, c |-> 0]
\* The locals of a handler or task.  sent: whether the current command reached
\* the driver, and the value of the connected flag at that moment; calls: the
\* driver calls made for the current command; toys, scanned: the result of the
\* scan once it has returned; text, sets, cmds: the transcript, the command sets
\* still to load and the commands still to run; log: the commands handed to
\* SpheroConnection for this transcript so far; seen: the connection status
\* the check handler has read and is about to broadcast.
NoLoc ==
    [toy |-> None, api |-> None, cmd |-> NoCmd, fwd |-> NoCmd, sent |-> "no", calls |-> 0,
     toys |-> <<>>, scanned |-> FALSE, seen |-> "none",
     text |-> <<>>, sets |-> <<>>, cmds |-> <<>>, log |-> <<>>]
NoRes == [ok |-> FALSE, msg |-> "none"]

Alive == ~exited
At(t, l) == Alive /\ pc[t] = l
Goto(t, l) == pc' = [pc EXCEPT ![t] = l]
Result(t, ok, msg) == res' = [res EXCEPT ![t] = [ok |-> ok, msg |-> msg]]
Emit(t, events) == emits' = [emits EXCEPT ![t] = @ \cup events]
ConnStatus(b) == IF b THEN "connection_status:true" ELSE "connection_status:false"
\* The handler or task of t is over: back to idle with its locals dropped.
Finish(t) ==
    /\ pc' = [pc EXCEPT ![t] = "idle"]
    /\ ret' = [ret EXCEPT ![t] = "idle"]
    /\ loc' = [loc EXCEPT ![t] = NoLoc]
    /\ res' = [res EXCEPT ![t] = NoRes]
    /\ raised' = [raised EXCEPT ![t] = FALSE]
    /\ emits' = [emits EXCEPT ![t] = {}]

\* ------------------------------------------------------------------ initial state
Init ==
    /\ sphero_toy = None
    /\ sphero_api = None
    /\ is_connected = FALSE
    /\ api_instance = None
    /\ connection_lock = NoHolder
    /\ max_speed = 30
    /\ max_brightness = 50
    /\ stop_random_movement = FALSE
    /\ is_active = FALSE
    /\ random_movement_thread = None
    /\ openSessions = {}
    /\ nextSession = 1
    /\ pc = [t \in Threads |-> "idle"]
    /\ ret = [t \in Threads |-> "idle"]
    /\ loc = [t \in Threads |-> NoLoc]
    /\ res = [t \in Threads |-> NoRes]
    /\ raised = [t \in Threads |-> FALSE]
    /\ emits = [t \in Threads |-> {}]
    /\ exited = FALSE
    /\ superseded = {}
    /\ survived = {}

\* ------------------------------------------------------------------ SpheroConnection.connect_to_sphero
\* Lines 109-110: SpheroEduAPI(toy).__enter__() opens the session or throws.
connect_open(t) ==
    /\ At(t, "connect_open")
    /\ \/ /\ nextSession <= MaxSessions
          /\ openSessions' = openSessions \cup {Session(nextSession)}
          /\ nextSession' = nextSession + 1
          /\ loc' = [loc EXCEPT ![t].api = Session(nextSession)]
          /\ Goto(t, "connect_111")
       \/ /\ Goto(t, "connect_except")
          /\ UNCHANGED <<openSessions, nextSession, loc>>
    /\ UNCHANGED <<connFields, connection_lock, limits, rmFields, rmGhost,
                   ret, res, raised, emits, exited>>

connect_111(t) ==
    /\ At(t, "connect_111")
    /\ api_instance' = loc[t].api
    /\ Goto(t, "connect_112")
    /\ UNCHANGED <<sphero_toy, sphero_api, is_connected, connection_lock, limits,
                   rmFields, rmGhost, driver, ret, loc, res, raised, emits, exited>>

connect_112(t) ==
    /\ At(t, "connect_112")
    /\ sphero_api' = loc[t].api
    /\ Goto(t, "connect_113")
    /\ UNCHANGED <<sphero_toy, api_instance, is_connected, connection_lock, limits,
                   rmFields, rmGhost, driver, ret, loc, res, raised, emits, exited>>

connect_113(t) ==
    /\ At(t, "connect_113")
    /\ sphero_toy' = loc[t].toy
    /\ Goto(t, "connect_114")
    /\ UNCHANGED <<sphero_api, api_instance, is_connected, connection_lock, limits,
                   rmFields, rmGhost, driver, ret, loc, res, raised, emits, exited>>

\* Lines 114-116: the flag goes up last, and connect returns success.
connect_114(t) ==
    /\ At(t, "connect_114")
    /\ is_connected' = TRUE
    /\ Result(t, TRUE, "Connected")
    /\ Goto(t, ret[t])
    /\ UNCHANGED <<sphero_toy, sphero_api, api_instance, connection_lock, limits,
                   rmFields, rmGhost, driver, ret, loc, raised, emits, exited>>

\* An except branch that keeps the toy it was asked to connect to.
ConnectExceptToyKept(toy) == toy

\* Line 120: the toy reference the except branch leaves.
ConnectExceptToy(toy) == None

\* Lines 117-124: clean up the partial connection and return failure.  The four
\* writes reset fields that the try block had not yet written.
connect_except(t) ==
    /\ At(t, "connect_except")
    /\ sphero_toy' = ConnectExceptToy(loc[t].toy)
    /\ api_instance' = None
    /\ sphero_api' = None
    /\ is_connected' = FALSE
    /\ Result(t, FALSE, "Connection error")
    /\ Goto(t, ret[t])
    /\ UNCHANGED <<connection_lock, limits, rmFields, rmGhost, driver, ret, loc,
                   raised, emits, exited>>

\* ------------------------------------------------------------------ SpheroConnection.disconnect_sphero
\* Lines 133-135.
disconnect_check(t) ==
    /\ At(t, "disconnect_check")
    /\ IF ~is_connected \/ api_instance = None
         THEN Result(t, FALSE, "Not connected to any Sphero") /\ Goto(t, ret[t])
         ELSE Goto(t, "disconnect_exit") /\ UNCHANGED res
    /\ UNCHANGED <<connFields, connection_lock, limits, rmFields, rmGhost, driver,
                   ret, loc, raised, emits, exited>>

\* Line 139: __exit__ closes the session, or throws (lines 146-148), and then the
\* driver may or may not have closed it; no field is written on that path.
disconnect_exit(t) ==
    /\ At(t, "disconnect_exit")
    /\ \/ /\ openSessions' = openSessions \ {api_instance}
          /\ Goto(t, "disconnect_140")
          /\ UNCHANGED res
       \/ /\ \E closed \in BOOLEAN :
                openSessions' = IF closed THEN openSessions \ {api_instance} ELSE openSessions
          /\ Result(t, FALSE, "Error disconnecting")
          /\ Goto(t, ret[t])
    /\ UNCHANGED <<connFields, connection_lock, limits, rmFields, rmGhost, nextSession,
                   ret, loc, raised, emits, exited>>

disconnect_140(t) ==
    /\ At(t, "disconnect_140")
    /\ api_instance' = None
    /\ Goto(t, "disconnect_141")
    /\ UNCHANGED <<sphero_toy, sphero_api, is_connected, connection_lock, limits,
                   rmFields, rmGhost, driver, ret, loc, res, raised, emits, exited>>

disconnect_141(t) ==
    /\ At(t, "disconnect_141")
    /\ sphero_api' = None
    /\ Goto(t, "disconnect_142")
    /\ UNCHANGED <<sphero_toy, api_instance, is_connected, connection_lock, limits,
                   rmFields, rmGhost, driver, ret, loc, res, raised, emits, exited>>

disconnect_142(t) ==
    /\ At(t, "disconnect_142")
    /\ is_connected' = FALSE
    /\ Goto(t, "disconnect_143")
    /\ UNCHANGED <<sphero_toy, sphero_api, api_instance, connection_lock, limits,
                   rmFields, rmGhost, driver, ret, loc, res, raised, emits, exited>>

\* Lines 143-145.
disconnect_143(t) ==
    /\ At(t, "disconnect_143")
    /\ sphero_toy' = None
    /\ Result(t, TRUE, "Disconnected from Sphero")
    /\ Goto(t, ret[t])
    /\ UNCHANGED <<sphero_api, api_instance, is_connected, connection_lock, limits,
                   rmFields, rmGhost, driver, ret, loc, raised, emits, exited>>

\* ------------------------------------------------------------------ SocketHandlers.attempt_auto_connect
\* handle_connect, lines 44-56: a client connects; the auto-connect task is started
\* when the flag is down, else the client is told the current status.
handle_connect(t) ==
    /\ At(t, "idle")
    /\ IF ~is_connected THEN Goto(t, "aac_acquire") ELSE UNCHANGED pc
    /\ UNCHANGED <<connFields, connection_lock, limits, rmFields, rmGhost, driver,
                   ret, loc, res, raised, emits, exited>>

\* handle_check_connection, lines 58-68: the status is broadcast and, when the flag
\* is down, the auto-connect task is started.
handle_check_connection(t) ==
    /\ At(t, "idle")
    /\ IF ~is_connected THEN Goto(t, "aac_acquire") ELSE UNCHANGED pc
    /\ UNCHANGED <<connFields, connection_lock, limits, rmFields, rmGhost, driver,
                   ret, loc, res, raised, emits, exited>>

\* Lines 215-220 with the early return left out: the task goes on whether or not
\* the lock was free.
aac_acquire_unchecked(t) ==
    /\ At(t, "aac_acquire")
    /\ connection_lock' = t
    /\ Goto(t, "aac_check")
    /\ UNCHANGED <<connFields, limits, rmFields, rmGhost, driver, ret, loc, res,
                   raised, emits, exited>>

\* Lines 215-220: acquire(blocking=False); a held lock makes the task return.
aac_acquire(t) ==
    /\ At(t, "aac_acquire")
    /\ IF connection_lock = NoHolder
         THEN /\ connection_lock' = t
              /\ Goto(t, "aac_check")
              /\ UNCHANGED <<ret, loc, res, raised, emits>>
         ELSE /\ Finish(t)
              /\ UNCHANGED connection_lock
    /\ UNCHANGED <<connFields, limits, rmFields, rmGhost, driver, exited>>

\* Lines 223-228 without the already-connected return.
aac_check_always_scan(t) ==
    /\ At(t, "aac_check")
    /\ Emit(t, {"status:Scanning"})
    /\ Goto(t, "aac_scan")
    /\ UNCHANGED <<connFields, connection_lock, limits, rmFields, rmGhost, driver,
                   ret, loc, res, raised, exited>>

\* Lines 223-228: return when already connected, else announce the scan (an emit
\* that throws leaves through the finally block).
aac_check(t) ==
    /\ At(t, "aac_check")
    /\ IF is_connected
         THEN Goto(t, "aac_finally") /\ UNCHANGED <<emits, raised>>
         ELSE \/ Emit(t, {"status:Scanning"}) /\ Goto(t, "aac_scan") /\ UNCHANGED raised
              \/ /\ raised' = [raised EXCEPT ![t] = TRUE]
                 /\ Goto(t, "aac_finally")
                 /\ UNCHANGED emits
    /\ UNCHANGED <<connFields, connection_lock, limits, rmFields, rmGhost, driver,
                   ret, loc, res, exited>>

\* A scan whose empty result is not looked at: the connect is tried all the same.
aac_scan_connect_anyway(t) ==
    /\ At(t, "aac_scan")
    /\ \E toys \in ScanResults :
          /\ Emit(t, {"status:Found"})
          /\ loc' = [loc EXCEPT ![t].toys = toys, ![t].scanned = TRUE,
                                 ![t].toy = IF toys = <<>> THEN "SB-1" ELSE toys[1]]
          /\ ret' = [ret EXCEPT ![t] = "aac_report"]
          /\ Goto(t, "connect_open")
    /\ UNCHANGED <<connFields, connection_lock, limits, rmFields, rmGhost, driver, res,
                   raised, exited>>

\* Lines 230-241: the scan throws, finds nothing, or finds toys and the first is
\* taken; each emit can throw.
aac_scan(t) ==
    /\ At(t, "aac_scan")
    /\ \/ /\ raised' = [raised EXCEPT ![t] = TRUE]
          /\ Goto(t, "aac_finally")
          /\ UNCHANGED <<emits, loc, ret>>
       \/ \E toys \in ScanResults :
            IF toys = <<>>
              THEN /\ Goto(t, "aac_finally")
                   /\ loc' = [loc EXCEPT ![t].toys = toys, ![t].scanned = TRUE]
                   /\ UNCHANGED ret
                   /\ \/ Emit(t, {"status:No Sphero toys found.", "connection_status:false"})
                         /\ UNCHANGED raised
                      \/ Emit(t, {"status:No Sphero toys found."})
                         /\ raised' = [raised EXCEPT ![t] = TRUE]
              ELSE \/ /\ Emit(t, {"status:Found"})
                      /\ loc' = [loc EXCEPT ![t].toys = toys, ![t].scanned = TRUE,
                                             ![t].toy = toys[1]]
                      /\ ret' = [ret EXCEPT ![t] = "aac_report"]
                      /\ Goto(t, "connect_open")
                      /\ UNCHANGED raised
                   \/ /\ raised' = [raised EXCEPT ![t] = TRUE]
                      /\ loc' = [loc EXCEPT ![t].toys = toys, ![t].scanned = TRUE]
                      /\ Goto(t, "aac_finally")
                      /\ UNCHANGED <<emits, ret>>
    /\ UNCHANGED <<connFields, connection_lock, limits, rmFields, rmGhost, driver, res, exited>>

\* Lines 244-247: report the outcome of connect_to_sphero.
aac_report(t) ==
    /\ At(t, "aac_report")
    /\ \/ Emit(t, {ConnStatus(is_connected), "status:" \o res[t].msg}) /\ UNCHANGED raised
       \/ Emit(t, {ConnStatus(is_connected)}) /\ raised' = [raised EXCEPT ![t] = TRUE]
    /\ Goto(t, "aac_finally")
    /\ UNCHANGED <<connFields, connection_lock, limits, rmFields, rmGhost, driver,
                   ret, loc, res, exited>>

\* A finally block that forgets the release.
aac_finally_keep(t) ==
    /\ At(t, "aac_finally")
    /\ Finish(t)
    /\ UNCHANGED <<connFields, connection_lock, limits, rmFields, rmGhost, driver, exited>>

\* Lines 249-251: the finally block releases the lock, and the task returns or its
\* exception leaves it.
aac_finally(t) ==
    /\ At(t, "aac_finally")
    /\ connection_lock' = NoHolder
    /\ Finish(t)
    /\ UNCHANGED <<connFields, limits, rmFields, rmGhost, driver, exited>>

\* ------------------------------------------------------------------ handle_disconnect
\* Lines 70-80: raise the stop flag of the random movement.
handle_disconnect(t) ==
    /\ At(t, "idle")
    /\ stop_random_movement' = TRUE
    /\ Goto(t, "hd_acquire")
    /\ UNCHANGED <<connFields, connection_lock, limits, is_active, random_movement_thread,
                   rmGhost, driver, ret, loc, res, raised, emits, exited>>

\* Line 83 with the result of acquire ignored: disconnect goes ahead after the
\* timeout too.
hd_acquire_ignore_timeout(t) ==
    /\ At(t, "hd_acquire")
    /\ connection_lock' = IF connection_lock = NoHolder THEN t ELSE connection_lock
    /\ ret' = [ret EXCEPT ![t] = "hd_report"]
    /\ Goto(t, "disconnect_check")
    /\ UNCHANGED <<connFields, limits, rmFields, rmGhost, driver, loc, res, raised,
                   emits, exited>>

\* Lines 83 and 94-96: acquire(timeout=1).  A free lock is taken; while the lock is
\* held the wait can run out, and the handler broadcasts 'Cannot disconnect,
\* operation in progress.' and returns.
hd_acquire(t) ==
    /\ At(t, "hd_acquire")
    /\ IF connection_lock = NoHolder
         THEN /\ connection_lock' = t
              /\ ret' = [ret EXCEPT ![t] = "hd_report"]
              /\ Goto(t, "disconnect_check")
              /\ UNCHANGED <<loc, res, raised, emits>>
         ELSE /\ Finish(t)
              /\ UNCHANGED connection_lock
    /\ UNCHANGED <<connFields, limits, rmFields, rmGhost, driver, exited>>

\* Lines 86-90: report the result of disconnect_sphero; an emit can throw.
hd_report(t) ==
    /\ At(t, "hd_report")
    /\ \/ Emit(t, {ConnStatus(is_connected), "status:" \o res[t].msg}) /\ UNCHANGED raised
       \/ Emit(t, {ConnStatus(is_connected)}) /\ raised' = [raised EXCEPT ![t] = TRUE]
    /\ Goto(t, "hd_finally")
    /\ UNCHANGED <<connFields, connection_lock, limits, rmFields, rmGhost, driver,
                   ret, loc, res, exited>>

\* Lines 91-93.
hd_finally(t) ==
    /\ At(t, "hd_finally")
    /\ connection_lock' = NoHolder
    /\ Finish(t)
    /\ UNCHANGED <<connFields, limits, rmFields, rmGhost, driver, exited>>

\* ------------------------------------------------------------------ cleanup (SIGINT / SIGTERM)
\* Lines 74-77.
cleanup(t) ==
    /\ At(t, "idle")
    /\ t = Main
    /\ stop_random_movement' = TRUE
    /\ Goto(t, "cl_acquire")
    /\ UNCHANGED <<connFields, connection_lock, limits, is_active, random_movement_thread,
                   rmGhost, driver, ret, loc, res, raised, emits, exited>>

\* Line 80 as a plain blocking acquire: it goes on only when the lock is free.
cl_acquire_blocking(t) ==
    /\ At(t, "cl_acquire")
    /\ connection_lock = NoHolder
    /\ connection_lock' = t
    /\ Goto(t, "cl_check")
    /\ UNCHANGED <<connFields, limits, rmFields, rmGhost, driver, ret, loc, res,
                   raised, emits, exited>>

\* A cleanup whose release is outside the test of the acquire: it releases
\* after a wait that ran out as well.
cl_acquire_release_on_timeout(t) ==
    /\ At(t, "cl_acquire")
    /\ IF connection_lock = NoHolder
         THEN connection_lock' = t /\ Goto(t, "cl_check")
         ELSE UNCHANGED connection_lock /\ Goto(t, "cl_finally")
    /\ UNCHANGED <<connFields, limits, rmFields, rmGhost, driver, ret, loc, res,
                   raised, emits, exited>>

\* Lines 80 and 94-95: acquire(timeout=2).  A free lock is taken; while the lock is
\* held the wait runs out and cleanup goes on without it.
cl_acquire(t) ==
    /\ At(t, "cl_acquire")
    /\ IF connection_lock = NoHolder
         THEN connection_lock' = t /\ Goto(t, "cl_check")
         ELSE UNCHANGED connection_lock /\ Goto(t, "cl_exit")
    /\ UNCHANGED <<connFields, limits, rmFields, rmGhost, driver, ret, loc, res,
                   raised, emits, exited>>

\* Lines 82-90: disconnect when a session is recorded.
cl_check(t) ==
    /\ At(t, "cl_check")
    /\ IF is_connected /\ api_instance # None
         THEN ret' = [ret EXCEPT ![t] = "cl_finally"] /\ Goto(t, "disconnect_check")
         ELSE UNCHANGED ret /\ Goto(t, "cl_finally")
    /\ UNCHANGED <<connFields, connection_lock, limits, rmFields, rmGhost, driver,
                   loc, res, raised, emits, exited>>

\* Lines 91-93.
cl_finally(t) ==
    /\ At(t, "cl_finally")
    /\ connection_lock' = NoHolder
    /\ Goto(t, "cl_exit")
    /\ UNCHANGED <<connFields, limits, rmFields, rmGhost, driver, ret, loc, res,
                   raised, emits, exited>>

\* Lines 97-98: sys.exit(0) ends the process: every thread ends with it and
\* nothing of the process state is left.
cl_exit(t) ==
    /\ At(t, "cl_exit")
    /\ exited' = TRUE
    /\ sphero_toy' = None
    /\ sphero_api' = None
    /\ is_connected' = FALSE
    /\ api_instance' = None
    /\ connection_lock' = NoHolder
    /\ stop_random_movement' = FALSE
    /\ is_active' = FALSE
    /\ random_movement_thread' = None
    /\ superseded' = {}
    /\ survived' = {}
    /\ pc' = [u \in Threads |-> "exited"]
    /\ ret' = [u \in Threads |-> "idle"]
    /\ loc' = [u \in Threads |-> NoLoc]
    /\ res' = [u \in Threads |-> NoRes]
    /\ raised' = [u \in Threads |-> FALSE]
    /\ emits' = [u \in Threads |-> {}]
    /\ UNCHANGED <<limits, driver>>

\* ------------------------------------------------------------------ SpheroConnection commands
\* Durations are in tenths of a second.
Min(x, y) == IF x < y THEN x ELSE y
Max(x, y) == IF x > y THEN x ELSE y

\* The (channel, max_brightness) pairs for which the double product
\* channel * (max_brightness / 255.0) falls just below the exact quotient, so that
\* int() gives one less than channel * max_brightness \div 255.
FloatShortfall ==
    {<<51, 155>>, <<75, 187>>, <<85, 147>>, <<85, 171>>, <<102, 155>>, <<150, 187>>,
     <<153, 155>>, <<153, 195>>, <<165, 187>>, <<170, 147>>, <<170, 171>>, <<204, 155>>}

\* Lines 205-208: int(channel * (max_brightness / 255.0)).
ScaleChannel(ch, mb) ==
    IF <<ch, mb>> \in FloatShortfall THEN ((ch * mb) \div 255) - 1 ELSE (ch * mb) \div 255

\* Lines 200-202.
ClampChannel(ch) == Max(0, Min(255, ch))
\* Lines 235 and 283.
ClampHeading(h) == Max(0, Min(359, h))
\* A speed clamp with the ceiling only.
ClampSpeedCeilingOnly(s, ms) == Min(ms, s)
\* Line 236.
ClampSpeed(s, ms) == Max(0, Min(ms, s))

\* The same computation with the ceilings the object was built with.
ForwardedAtDefaults(cmd) ==
    CASE cmd.op = "set_main_led" ->
           [op |-> "set_main_led",
            a |-> ScaleChannel(ClampChannel(cmd.a), 50),
            b |-> ScaleChannel(ClampChannel(cmd.b), 50),
            c |-> ScaleChannel(ClampChannel(cmd.c), 50)]
      [] cmd.op = "roll" ->
           [op |-> "roll", a |-> ClampHeading(cmd.a), b |-> ClampSpeed(cmd.b, 30),
            c |-> cmd.c]
      [] cmd.op = "spin" -> [op |-> "spin", a |-> cmd.a, b |-> cmd.b, c |-> 0]
      [] cmd.op = "set_heading" -> [op |-> "roll", a |-> ClampHeading(cmd.a), b |-> 0, c |-> 1]

\* What each command hands to the driver, computed from the ceilings read now.
Forwarded(cmd) ==
    CASE cmd.op = "set_main_led" ->
           [op |-> "set_main_led",
            a |-> ScaleChannel(ClampChannel(cmd.a), max_brightness),
            b |-> ScaleChannel(ClampChannel(cmd.b), max_brightness),
            c |-> ScaleChannel(ClampChannel(cmd.c), max_brightness)]
      [] cmd.op = "roll" ->
           [op |-> "roll", a |-> ClampHeading(cmd.a), b |-> ClampSpeed(cmd.b, max_speed),
            c |-> cmd.c]
      [] cmd.op = "spin" -> [op |-> "spin", a |-> cmd.a, b |-> cmd.b, c |-> 0]
      [] cmd.op = "set_heading" -> [op |-> "roll", a |-> ClampHeading(cmd.a), b |-> 0, c |-> 1]

Cmd(op, a, b, c) == [op |-> op, a |-> a, b |-> b, c |-> c]

\* Thread t goes on at l and drops the result of the command it called before.
Proceed(t, l) ==
    /\ Goto(t, l)
    /\ loc' = [loc EXCEPT ![t] = NoLoc]
    /\ res' = [res EXCEPT ![t] = NoRes]
    /\ UNCHANGED ret

\* Thread t calls a command of SpheroConnection and continues at `back`.
Call(t, cmd, back) ==
    /\ loc' = [loc EXCEPT ![t].cmd = cmd, ![t].fwd = NoCmd, ![t].api = None,
                           ![t].sent = "no", ![t].calls = 0]
    /\ res' = [res EXCEPT ![t] = NoRes]
    /\ ret' = [ret EXCEPT ![t] = back]
    /\ Goto(t, "cmd_check_connected")

\* A command that looks at the session reference only.
cmd_check_connected_skipped(t) ==
    /\ At(t, "cmd_check_connected")
    /\ Goto(t, "cmd_check_api")
    /\ UNCHANGED <<connFields, connection_lock, limits, rmFields, rmGhost, driver,
                   ret, loc, res, raised, emits, exited>>

\* Lines 194, 229, 256, 278, first operand: not self._is_connected.
cmd_check_connected(t) ==
    /\ At(t, "cmd_check_connected")
    /\ IF ~is_connected
         THEN Result(t, FALSE, "Not connected to any Sphero") /\ Goto(t, ret[t])
         ELSE Goto(t, "cmd_check_api") /\ UNCHANGED res
    /\ UNCHANGED <<connFields, connection_lock, limits, rmFields, rmGhost, driver,
                   ret, loc, raised, emits, exited>>

\* The same lines, second operand: not self._sphero_api.
cmd_check_api(t) ==
    /\ At(t, "cmd_check_api")
    /\ IF sphero_api = None
         THEN Result(t, FALSE, "Not connected to any Sphero") /\ Goto(t, ret[t])
         ELSE Goto(t, "cmd_clamp") /\ UNCHANGED res
    /\ UNCHANGED <<connFields, connection_lock, limits, rmFields, rmGhost, driver,
                   ret, loc, raised, emits, exited>>

\* Lines 200-208, 235-236, 283: clamp and scale with the ceilings as they are now.
cmd_clamp(t) ==
    /\ At(t, "cmd_clamp")
    /\ loc' = [loc EXCEPT ![t].fwd = Forwarded(loc[t].cmd)]
    /\ Goto(t, "cmd_load")
    /\ UNCHANGED <<connFields, connection_lock, limits, rmFields, rmGhost, driver,
                   ret, res, raised, emits, exited>>

\* Lines 210, 238, 261, 285: self._sphero_api is read to find the method; a
\* reference already cleared makes the attribute lookup throw, which the except
\* branch turns into a failure result.
cmd_load(t) ==
    /\ At(t, "cmd_load")
    /\ IF sphero_api = None
         THEN Result(t, FALSE, "Error") /\ Goto(t, ret[t]) /\ UNCHANGED loc
         ELSE loc' = [loc EXCEPT ![t].api = sphero_api] /\ Goto(t, "cmd_call")
              /\ UNCHANGED res
    /\ UNCHANGED <<connFields, connection_lock, limits, rmFields, rmGhost, driver,
                   ret, raised, emits, exited>>

\* A command that marks the connection as lost when the driver throws.
cmd_call_drop_on_error(t) ==
    /\ At(t, "cmd_call")
    /\ loc' = [loc EXCEPT ![t].sent = IF is_connected THEN "connected" ELSE "disconnected",
                           ![t].calls = @ + 1]
    /\ \/ Result(t, TRUE, "Done") /\ UNCHANGED is_connected
       \/ Result(t, FALSE, "Error") /\ is_connected' = FALSE
    /\ Goto(t, ret[t])
    /\ UNCHANGED <<sphero_toy, sphero_api, api_instance, connection_lock, limits, rmFields,
                   rmGhost, driver, ret, raised, emits, exited>>

\* A command that sends the call a second time when the driver threw.
cmd_call_retry(t) ==
    /\ At(t, "cmd_call")
    /\ loc' = [loc EXCEPT ![t].sent = IF is_connected THEN "connected" ELSE "disconnected",
                           ![t].calls = @ + 1]
    /\ \/ Result(t, TRUE, "Done") /\ Goto(t, ret[t])
       \/ IF loc[t].calls = 0
            THEN Goto(t, "cmd_call") /\ UNCHANGED res
            ELSE Result(t, FALSE, "Error") /\ Goto(t, ret[t])
    /\ UNCHANGED <<connFields, connection_lock, limits, rmFields, rmGhost, driver,
                   ret, raised, emits, exited>>

\* The call reaches the driver with the session read before; the driver carries
\* it out or throws, and the except branch returns the failure.
cmd_call(t) ==
    /\ At(t, "cmd_call")
    /\ loc' = [loc EXCEPT ![t].sent = IF is_connected THEN "connected" ELSE "disconnected",
                           ![t].calls = @ + 1]
    /\ \/ Result(t, TRUE, "Done")
       \/ Result(t, FALSE, "Error")
    /\ Goto(t, ret[t])
    /\ UNCHANGED <<connFields, connection_lock, limits, rmFields, rmGhost, driver,
                   ret, raised, emits, exited>>

\* ------------------------------------------------------------------ handle_set_color / roll / spin / set_heading
\* The commands a client sends in this model.
UiCommands == {Cmd("set_main_led", 300, 0, 128), Cmd("roll", 400, 40, 10)}

\* socket_handlers.py lines 98-169: parse the payload and call the command.
handle_command(t) ==
    /\ At(t, "idle")
    /\ \E cmd \in UiCommands : Call(t, cmd, "cmd_report")
    /\ UNCHANGED <<connFields, connection_lock, limits, rmFields, rmGhost, driver,
                   raised, emits, exited>>

\* Lines 112, 131, 149, 166: the result message is broadcast and the handler
\* returns.
cmd_report(t) ==
    /\ At(t, "cmd_report")
    /\ Finish(t)
    /\ UNCHANGED <<connFields, connection_lock, limits, rmFields, rmGhost, driver, exited>>

\* ------------------------------------------------------------------ the safety ceilings
\* The values a caller hands to the setters, and the commands a client sends,
\* in the specification of the ceilings.
LimitInputs == {-5, 20, 155, 300}
ClientCommands ==
    {Cmd("set_main_led", -7, 51, 300), Cmd("roll", -20, -5, 10), Cmd("roll", 400, 40, 10),
     Cmd("roll", 0, 0, 0), Cmd("set_heading", 720, 0, 0), Cmd("spin", 180, 35, 0)}

\* A max_speed setter that stores what it is given.
set_max_speed_unclamped(t) ==
    /\ At(t, "idle")
    /\ \E v \in LimitInputs : max_speed' = v
    /\ UNCHANGED <<connFields, connection_lock, max_brightness, rmFields, rmGhost, driver,
                   control>>

\* Lines 68-71: the max_speed setter.
set_max_speed(t) ==
    /\ At(t, "idle")
    /\ \E v \in LimitInputs : max_speed' = Max(0, Min(255, v))
    /\ UNCHANGED <<connFields, connection_lock, max_brightness, rmFields, rmGhost, driver,
                   control>>

\* Lines 78-81: the max_brightness setter.
set_max_brightness(t) ==
    /\ At(t, "idle")
    /\ \E v \in LimitInputs : max_brightness' = Max(0, Min(255, v))
    /\ UNCHANGED <<connFields, connection_lock, max_speed, rmFields, rmGhost, driver,
                   control>>

\* Lines 172-177: set_brightness_limit clamps, stores and returns success.
set_brightness_limit(t) ==
    /\ At(t, "idle")
    /\ \E limit \in LimitInputs : max_brightness' = Max(0, Min(255, limit))
    /\ Result(t, TRUE, "Brightness limit set")
    /\ UNCHANGED <<connFields, connection_lock, max_speed, rmFields, rmGhost, driver,
                   pc, ret, loc, raised, emits, exited>>

\* socket_handlers.py lines 98-169, with the payloads of ClientCommands.
handle_client_command(t) ==
    /\ At(t, "idle")
    /\ \E cmd \in ClientCommands : Call(t, cmd, "cmd_report")
    /\ UNCHANGED <<connFields, connection_lock, limits, rmFields, rmGhost, driver,
                   raised, emits, exited>>

\* ------------------------------------------------------------------ RandomMovement.start_random_movement
\* The values the loop draws (lines 67-69, 73-77, 92-93): colours, (heading, speed,
\* duration) and (degrees, duration).
LoopColors == {<<40, 0, 20>>}
LoopRolls == {<<359, 40, 15>>, <<0, 10, 5>>}
LoopSpins == {<<180, 35>>}

Running == {l \in LoopTasks : pc[l] # "idle"}

\* handle_start_random_movement (socket_handlers.py 171-176) and lines 216-218: a
\* start while disconnected is refused and the message broadcast.
handle_start_random_movement(t) ==
    /\ At(t, "idle")
    /\ Cardinality(Running) < Cardinality(LoopTasks)
    /\ IF ~is_connected
         THEN /\ Result(t, FALSE, "Cannot start random movement: Not connected to Sphero")
              /\ Goto(t, "start_report")
         ELSE Goto(t, "start_222") /\ UNCHANGED res
    /\ UNCHANGED <<connFields, connection_lock, limits, rmFields, rmGhost, driver,
                   ret, loc, raised, emits, exited>>

\* socket_handlers.py lines 175-176: the message of a refused start is broadcast
\* and the handler returns.
start_report(t) ==
    /\ At(t, "start_report")
    /\ Finish(t)
    /\ UNCHANGED <<connFields, connection_lock, limits, rmFields, rmGhost, driver, exited>>

\* Line 222: signal any existing thread to stop.
start_222(t) ==
    /\ At(t, "start_222")
    /\ stop_random_movement' = TRUE
    /\ Goto(t, "start_228")
    /\ UNCHANGED <<connFields, connection_lock, limits, is_active, random_movement_thread,
                   rmGhost, driver, ret, loc, res, raised, emits, exited>>

\* Line 228.
start_228(t) ==
    /\ At(t, "start_228")
    /\ stop_random_movement' = FALSE
    /\ Goto(t, "start_229")
    /\ UNCHANGED <<connFields, connection_lock, limits, is_active, random_movement_thread,
                   rmGhost, driver, ret, loc, res, raised, emits, exited>>

\* Line 229.
start_229(t) ==
    /\ At(t, "start_229")
    /\ is_active' = TRUE
    /\ Goto(t, "start_spawn")
    /\ UNCHANGED <<connFields, connection_lock, limits, stop_random_movement,
                   random_movement_thread, rmGhost, driver, ret, loc, res, raised,
                   emits, exited>>

\* Lines 242-251: start the background task, broadcast the status, return.  The
\* loops alive at this moment are the ones this start supersedes.
start_spawn(t) ==
    /\ At(t, "start_spawn")
    /\ \E l \in LoopTasks \ Running :
          /\ pc' = [pc EXCEPT ![l] = "rm_begin", ![t] = "idle"]
          /\ random_movement_thread' = l
    /\ superseded' = Running
    /\ survived' = {}
    /\ UNCHANGED <<connFields, connection_lock, limits, stop_random_movement, is_active,
                   driver, ret, loc, res, raised, emits, exited>>

\* ------------------------------------------------------------------ RandomMovement._random_movement_function
\* The task is over.
EndLoop(l) ==
    /\ Finish(l)
    /\ superseded' = superseded \ {l}
    /\ survived' = survived \ {l}

\* Lines 55-57; an emit that throws leads to the outer except branch.
rm_begin(l) ==
    /\ At(l, "rm_begin")
    /\ \/ Emit(l, {"status:Random movement started"}) /\ Goto(l, "rm_top")
       \/ Goto(l, "rm_fatal") /\ UNCHANGED emits
    /\ UNCHANGED <<connFields, connection_lock, limits, rmFields, rmGhost, driver,
                   ret, loc, res, raised, exited>>

\* Line 59: the stop flag is read at the top of every iteration.
rm_top(l) ==
    /\ At(l, "rm_top")
    /\ IF stop_random_movement
         THEN Goto(l, "rm_exit") /\ UNCHANGED survived
         ELSE Goto(l, "rm_connected") /\ survived' = survived \cup {l}
    /\ UNCHANGED <<connFields, connection_lock, limits, rmFields, superseded, driver,
                   ret, loc, res, raised, emits, exited>>

\* Line 61, first operand.
rm_connected(l) ==
    /\ At(l, "rm_connected")
    /\ IF ~is_connected THEN Goto(l, "rm_exit") ELSE Goto(l, "rm_api")
    /\ UNCHANGED <<connFields, connection_lock, limits, rmFields, rmGhost, driver,
                   ret, loc, res, raised, emits, exited>>

\* Line 61, second operand; then lines 67-70: a random dim colour.
rm_api(l) ==
    /\ At(l, "rm_api")
    /\ IF sphero_api = None
         THEN Goto(l, "rm_exit") /\ UNCHANGED <<loc, ret, res>>
         ELSE \E rgb \in LoopColors :
                Call(l, Cmd("set_main_led", rgb[1], rgb[2], rgb[3]), "rm_roll")
    /\ UNCHANGED <<connFields, connection_lock, limits, rmFields, rmGhost, driver,
                   raised, emits, exited>>

\* Lines 73-78: a random roll.
rm_roll(l) ==
    /\ At(l, "rm_roll")
    /\ \E r \in LoopRolls : Call(l, Cmd("roll", r[1], r[2], r[3]), "rm_sleep")
    /\ UNCHANGED <<connFields, connection_lock, limits, rmFields, rmGhost, driver,
                   raised, emits, exited>>

\* A loop that gives up when its roll failed.
rm_sleep_end_on_failure(l) ==
    /\ At(l, "rm_sleep")
    /\ IF ~res[l].ok
         THEN Goto(l, "rm_exit") /\ UNCHANGED <<loc, ret, res>>
         ELSE Proceed(l, "rm_top")
    /\ UNCHANGED <<connFields, connection_lock, limits, rmFields, rmGhost, driver,
                   raised, emits, exited>>

\* Lines 81-90 and 104: pause; then, one time in five and only while connected and
\* not stopped, a spin is due; else the iteration ends.
rm_sleep(l) ==
    /\ At(l, "rm_sleep")
    /\ \/ Proceed(l, "rm_top")
       \/ IF is_connected /\ sphero_api # None /\ ~stop_random_movement
            THEN \E sp \in LoopSpins : Call(l, Cmd("spin", sp[1], sp[2], 0), "rm_after_spin")
            ELSE Proceed(l, "rm_top")
    /\ UNCHANGED <<connFields, connection_lock, limits, rmFields, rmGhost, driver,
                   raised, emits, exited>>

\* Lines 97 and 104: pause after the spin.
rm_after_spin(l) ==
    /\ At(l, "rm_after_spin")
    /\ Proceed(l, "rm_top")
    /\ UNCHANGED <<connFields, connection_lock, limits, rmFields, rmGhost, driver,
                   raised, emits, exited>>

\* A loop that goes round again when it finds the connection gone at its end.
rm_exit_back_to_top(l) ==
    /\ At(l, "rm_exit")
    /\ IF is_connected /\ sphero_api # None
         THEN Call(l, Cmd("roll", 0, 0, 0), "rm_finished")
         ELSE Goto(l, "rm_top") /\ UNCHANGED <<loc, ret, res>>
    /\ UNCHANGED <<connFields, connection_lock, limits, rmFields, rmGhost, driver,
                   raised, emits, exited>>

\* Lines 107-112: stop rolling if still connected.
rm_exit(l) ==
    /\ At(l, "rm_exit")
    /\ IF is_connected /\ sphero_api # None
         THEN Call(l, Cmd("roll", 0, 0, 0), "rm_finished")
         ELSE Goto(l, "rm_finished") /\ UNCHANGED <<loc, ret, res>>
    /\ UNCHANGED <<connFields, connection_lock, limits, rmFields, rmGhost, driver,
                   raised, emits, exited>>

\* Lines 114-119: broadcast the end and clear the active flag; an emit that throws
\* leads to the outer except branch.
rm_finished(l) ==
    /\ At(l, "rm_finished")
    /\ \/ /\ Emit(l, {"status:Random movement stopped", "random_movement_status:false"})
          /\ is_active' = FALSE
          /\ Goto(l, "rm_done")
       \/ /\ Goto(l, "rm_fatal")
          /\ UNCHANGED <<is_active, emits>>
    /\ UNCHANGED <<connFields, connection_lock, limits, stop_random_movement,
                   random_movement_thread, rmGhost, driver, ret, loc, res, raised, exited>>

\* Lines 121-127: the outer except branch broadcasts the error and the terminal
\* status and clears the active flag; when the emit of line 123 or of line 125
\* throws, the exception ends the task before line 127.
rm_fatal(l) ==
    /\ At(l, "rm_fatal")
    /\ \/ /\ Emit(l, {"status:Random movement error", "random_movement_status:false"})
          /\ is_active' = FALSE
       \/ /\ Emit(l, {"status:Random movement error"})
          /\ UNCHANGED is_active
       \/ UNCHANGED <<is_active, emits>>
    /\ Goto(l, "rm_done")
    /\ UNCHANGED <<connFields, connection_lock, limits, stop_random_movement,
                   random_movement_thread, rmGhost, driver, ret, loc, res, raised, exited>>

\* The task function has returned or died: the thread is gone.
rm_return(l) ==
    /\ At(l, "rm_done")
    /\ EndLoop(l)
    /\ UNCHANGED <<connFields, connection_lock, limits, rmFields, driver, exited>>

\* ------------------------------------------------------------------ RandomMovement.stop_random_movement_command
\* Line 264.
handle_stop_random_movement(t) ==
    /\ At(t, "idle")
    /\ stop_random_movement' = TRUE
    /\ Goto(t, "stop_270")
    /\ UNCHANGED <<connFields, connection_lock, limits, is_active, random_movement_thread,
                   rmGhost, driver, ret, loc, res, raised, emits, exited>>

\* A stop that sends its roll only while the movement is marked active.
stop_270_if_active(t) ==
    /\ At(t, "stop_270")
    /\ IF is_connected /\ is_active
         THEN Call(t, Cmd("roll", 0, 0, 0), "stop_278")
         ELSE Goto(t, "stop_278") /\ UNCHANGED <<loc, ret, res>>
    /\ UNCHANGED <<connFields, connection_lock, limits, rmFields, rmGhost, driver,
                   raised, emits, exited>>

\* Lines 267-273: after the short sleep, stop the roll if connected.  roll()
\* catches every exception of the driver itself (lines 241-243) and returns a
\* failure pair, so the except branch of lines 274-276 is never entered.
stop_270(t) ==
    /\ At(t, "stop_270")
    /\ IF is_connected
         THEN Call(t, Cmd("roll", 0, 0, 0), "stop_278")
         ELSE Goto(t, "stop_278") /\ UNCHANGED <<loc, ret, res>>
    /\ UNCHANGED <<connFields, connection_lock, limits, rmFields, rmGhost, driver,
                   raised, emits, exited>>

\* A stop that returns early, flag untouched, when its roll reported a failure.
stop_278_keep_on_failure(t) ==
    /\ At(t, "stop_278")
    /\ is_active' = IF loc[t].cmd.op = "roll" /\ ~res[t].ok THEN is_active ELSE FALSE
    /\ Result(t, TRUE, "Stopping random movement...")
    /\ Goto(t, "stop_report")
    /\ UNCHANGED <<connFields, connection_lock, limits, stop_random_movement,
                   random_movement_thread, rmGhost, driver, ret, loc, raised, emits,
                   exited>>

\* Line 278.
stop_278(t) ==
    /\ At(t, "stop_278")
    /\ is_active' = FALSE
    /\ Result(t, TRUE, "Stopping random movement...")
    /\ Goto(t, "stop_report")
    /\ UNCHANGED <<connFields, connection_lock, limits, stop_random_movement,
                   random_movement_thread, rmGhost, driver, ret, loc, raised, emits,
                   exited>>

\* Line 279 and socket_handlers.py 181-183: the message is broadcast.
stop_report(t) ==
    /\ At(t, "stop_report")
    /\ Finish(t)
    /\ UNCHANGED <<connFields, connection_lock, limits, rmFields, rmGhost, driver, exited>>

\* ------------------------------------------------------------------ openai_processor.process_transcript
\* A transcript is a sequence of tokens: "{" and "}" are the braces of the text,
\* every other token is a piece of text without a brace.  "roll", "spin",
\* "set_main_led", "set_heading", "dance" and "roll_bad" stand for the members
\* of a command object ("command": name, "parameters": {...}) naming roll with
\* param1..3 = 10, 50, 1.0, spin with 90, 2.0, set_main_led with
\* Color(r=255, g=0, b=200), set_heading with 90, a command the processor does
\* not know, and roll with a heading that is not a number; "x" is text that is
\* not JSON.  Durations are in tenths of a second.
MaxTranscriptLen == 5
Atoms == {"roll", "spin", "set_main_led", "set_heading", "dance", "roll_bad"}
Alphabet == {"{", "}", "roll", "x"}

\* "roll(10, 50, 1.0); spin(90, 2.0)".
FunctionCallTranscript == <<"roll(10, 50, 1.0)", ";", "spin(90, 2.0)">>

SeqsUpTo(n) == UNION {[1..k -> Alphabet] : k \in 0..n}

Transcripts ==
    SeqsUpTo(MaxTranscriptLen) \cup
    { FunctionCallTranscript,
      <<"{", "{", "roll", "}", "{", "spin", "}", "}">>,
      <<"{", "{", "roll", "}", "}", "{", "{", "spin", "}", "}">>,
      <<"{", "{", "dance", "}", "}">>,
      <<"{", "{", "roll", "}">>,
      <<"{", "{", "roll", "}", "}", "}">>,
      <<"}", "{", "{", "roll", "}", "}">>,
      <<"{", "{", "roll", "}", "}", "{", "x", "}">>,
      <<"{", "x", "}", "{", "{", "roll", "}", "}">>,
      <<"{", "{", "set_main_led", "}", "{", "dance", "}", "{", "roll", "}", "}",
        "{", "{", "set_heading", "}", "{", "spin", "}", "}">>,
      <<"{", "{", "roll", "}", "{", "roll_bad", "}", "{", "spin", "}", "}">> }

\* A scan that takes every closing brace at depth 0 or below for the end of an
\* object.
RECURSIVE SplitFromAnyClose(_, _, _, _, _)
SplitFromAnyClose(text, i, depth, start, result) ==
    IF i > Len(text) THEN result
    ELSE IF text[i] = "{"
      THEN SplitFromAnyClose(text, i + 1, depth + 1, IF depth = 0 THEN i ELSE start, result)
    ELSE IF text[i] = "}"
      THEN SplitFromAnyClose(text, i + 1, depth - 1, start,
                             IF depth - 1 <= 0 THEN Append(result, SubSeq(text, start, i))
                             ELSE result)
    ELSE SplitFromAnyClose(text, i + 1, depth, start, result)

\* Lines 148-156 from character i on.
RECURSIVE SplitFrom(_, _, _, _, _)
SplitFrom(text, i, depth, start, result) ==
    IF i > Len(text) THEN result
    ELSE IF text[i] = "{"
      THEN SplitFrom(text, i + 1, depth + 1, IF depth = 0 THEN i ELSE start, result)
    ELSE IF text[i] = "}"
      THEN SplitFrom(text, i + 1, depth - 1, start,
                     IF depth - 1 = 0 THEN Append(result, SubSeq(text, start, i))
                     ELSE result)
    ELSE SplitFrom(text, i + 1, depth, start, result)

\* Lines 144-158.
split_json_objects(text) == SplitFrom(text, 1, 0, 1, <<>>)

\* The command objects of a 'commands' list: "{" atom "}" repeated, or "{" "}"
\* for an object without a name.  The result is the list of names, "dance" for
\* a missing one (both are passed over by process_command).
RECURSIVE IsCommandList(_)
IsCommandList(s) ==
    \/ s = <<>>
    \/ Len(s) >= 2 /\ s[1] = "{" /\ s[2] = "}" /\ IsCommandList(SubSeq(s, 3, Len(s)))
    \/ /\ Len(s) >= 3 /\ s[1] = "{" /\ s[2] \in Atoms /\ s[3] = "}"
       /\ IsCommandList(SubSeq(s, 4, Len(s)))

RECURSIVE CommandNames(_)
CommandNames(s) ==
    IF s = <<>> THEN <<>>
    ELSE IF s[2] = "}" THEN <<"dance">> \o CommandNames(SubSeq(s, 3, Len(s)))
    ELSE <<s[2]>> \o CommandNames(SubSeq(s, 4, Len(s)))

\* Lines 115-116: json.loads of one segment and command_data.get('commands', []).
\* A segment whose inside is a list of command objects decodes to a dictionary
\* with that list; one whose inside has members only and no list decodes to a
\* dictionary without 'commands'; anything else is a JSONDecodeError.
json_loads(seg) ==
    LET inner == SubSeq(seg, 2, Len(seg) - 1) IN
    IF \A k \in 1..Len(inner) : inner[k] \in Atoms
      THEN [ok |-> TRUE, commands |-> <<>>]
    ELSE IF IsCommandList(inner)
      THEN [ok |-> TRUE, commands |-> CommandNames(inner)]
    ELSE [ok |-> FALSE, commands |-> <<>>]

\* A command that takes every unknown name for a roll.
process_command_default_roll(name) ==
    CASE name = "spin" -> Cmd("spin", 90, 20, 0)
      [] OTHER -> Cmd("roll", 10, 50, 10)

\* Lines 168-184: the call process_command makes for a name; none for a name
\* it does not know.
process_command(name) ==
    CASE name = "set_main_led" -> Cmd("set_main_led", 255, 0, 200)
      [] name = "roll" -> Cmd("roll", 10, 50, 10)
      [] name = "spin" -> Cmd("spin", 90, 20, 0)
      [] name = "set_heading" -> Cmd("set_heading", 90, 0, 0)
      [] OTHER -> NoCmd

\* socket_handlers.py lines 185-201 and openai_processor.py lines 21-70: the
\* event carries a transcript, the Response API answers with the text of the
\* commands, and process_transcript is called with that text.
handle_openai_response(t) ==
    /\ At(t, "idle")
    /\ \E text \in Transcripts : loc' = [loc EXCEPT ![t].text = text]
    /\ Goto(t, "pt_check")
    /\ UNCHANGED <<connFields, connection_lock, limits, rmFields, rmGhost, driver,
                   ret, res, raised, emits, exited>>

\* A processor that goes on without looking at the connection.
pt_check_any_connection(t) ==
    /\ At(t, "pt_check")
    /\ IF loc[t].text = <<>>
         THEN Result(t, TRUE, None) /\ Goto(t, "pt_return") /\ UNCHANGED loc
         ELSE /\ loc' = [loc EXCEPT ![t].sets = split_json_objects(loc[t].text)]
              /\ Goto(t, "pt_next_set")
              /\ UNCHANGED res
    /\ UNCHANGED <<connFields, connection_lock, limits, rmFields, rmGhost, driver,
                   ret, raised, emits, exited>>

\* Lines 103-111.
pt_check(t) ==
    /\ At(t, "pt_check")
    /\ IF loc[t].text = <<>>
         THEN Result(t, TRUE, None) /\ Goto(t, "pt_return") /\ UNCHANGED loc
         ELSE IF ~is_connected
           THEN /\ Result(t, FALSE, "Livvy wants to move, but Sphero is not connected.")
                /\ Goto(t, "pt_return")
                /\ UNCHANGED loc
           ELSE /\ loc' = [loc EXCEPT ![t].sets = split_json_objects(loc[t].text)]
                /\ Goto(t, "pt_next_set")
                /\ UNCHANGED res
    /\ UNCHANGED <<connFields, connection_lock, limits, rmFields, rmGhost, driver,
                   ret, raised, emits, exited>>

\* A processor that passes over a command set that does not decode.
pt_next_set_skip_undecodable(t) ==
    /\ At(t, "pt_next_set")
    /\ IF loc[t].sets = <<>>
         THEN /\ Result(t, TRUE, "Livvy executed the commands!")
              /\ Goto(t, "pt_return")
              /\ UNCHANGED loc
         ELSE /\ loc' = [loc EXCEPT ![t].sets = Tail(@),
                                     ![t].cmds = json_loads(Head(loc[t].sets)).commands]
              /\ res' = [res EXCEPT ![t] = NoRes]
              /\ Goto(t, "pt_next_cmd")
    /\ UNCHANGED <<connFields, connection_lock, limits, rmFields, rmGhost, driver,
                   ret, raised, emits, exited>>

\* A processor that stops at the first command it does not know.
pt_next_cmd_stop_at_unknown(t) ==
    /\ At(t, "pt_next_cmd")
    /\ IF loc[t].cmds = <<>>
         THEN Goto(t, "pt_next_set") /\ UNCHANGED <<loc, res, ret>>
         ELSE LET name == Head(loc[t].cmds) IN
              IF process_command(name) = NoCmd
                THEN /\ Result(t, FALSE, "Error processing commands")
                     /\ Goto(t, "pt_return")
                     /\ UNCHANGED <<loc, ret>>
              ELSE /\ loc' = [loc EXCEPT ![t].cmds = Tail(@),
                                          ![t].log = Append(@, process_command(name)),
                                          ![t].cmd = process_command(name),
                                          ![t].fwd = NoCmd, ![t].api = None,
                                          ![t].sent = "no", ![t].calls = 0]
                   /\ res' = [res EXCEPT ![t] = NoRes]
                   /\ ret' = [ret EXCEPT ![t] = "pt_next_cmd"]
                   /\ Goto(t, "cmd_check_connected")
    /\ UNCHANGED <<connFields, connection_lock, limits, rmFields, rmGhost, driver,
                   raised, emits, exited>>

\* Lines 114-116 and 124-129: the next command set is decoded, or the loop is
\* over and the success is returned; a decode error ends the processing.
pt_next_set(t) ==
    /\ At(t, "pt_next_set")
    /\ IF loc[t].sets = <<>>
         THEN /\ Result(t, TRUE, "Livvy executed the commands!")
              /\ Goto(t, "pt_return")
              /\ UNCHANGED loc
         ELSE LET command_data == json_loads(Head(loc[t].sets)) IN
              IF command_data.ok
                THEN /\ loc' = [loc EXCEPT ![t].sets = Tail(@),
                                            ![t].cmds = command_data.commands]
                     /\ res' = [res EXCEPT ![t] = NoRes]
                     /\ Goto(t, "pt_next_cmd")
                ELSE /\ Result(t, FALSE, "Error parsing command data")
                     /\ Goto(t, "pt_return")
                     /\ UNCHANGED loc
    /\ UNCHANGED <<connFields, connection_lock, limits, rmFields, rmGhost, driver,
                   ret, raised, emits, exited>>

\* Lines 119-122 and 130-132 with process_command (160-185): the next command
\* of the set is converted and handed to SpheroConnection, whose result is
\* dropped; a name the processor does not know is passed over; a parameter that
\* is not a number makes int() throw, which ends the processing.
pt_next_cmd(t) ==
    /\ At(t, "pt_next_cmd")
    /\ IF loc[t].cmds = <<>>
         THEN Goto(t, "pt_next_set") /\ UNCHANGED <<loc, res, ret>>
         ELSE LET name == Head(loc[t].cmds) IN
              IF name = "roll_bad"
                THEN /\ Result(t, FALSE, "Error processing commands")
                     /\ Goto(t, "pt_return")
                     /\ UNCHANGED <<loc, ret>>
              ELSE IF process_command(name) = NoCmd
                THEN /\ loc' = [loc EXCEPT ![t].cmds = Tail(@)]
                     /\ UNCHANGED <<pc, res, ret>>
              ELSE /\ loc' = [loc EXCEPT ![t].cmds = Tail(@),
                                          ![t].log = Append(@, process_command(name)),
                                          ![t].cmd = process_command(name),
                                          ![t].fwd = NoCmd, ![t].api = None,
                                          ![t].sent = "no", ![t].calls = 0]
                   /\ res' = [res EXCEPT ![t] = NoRes]
                   /\ ret' = [ret EXCEPT ![t] = "pt_next_cmd"]
                   /\ Goto(t, "cmd_check_connected")
    /\ UNCHANGED <<connFields, connection_lock, limits, rmFields, rmGhost, driver,
                   raised, emits, exited>>

\* process_transcript has returned its (success, message) pair (lines 104, 107,
\* 125, 129, 132); process_response_output drops it (line 68) and the handler
\* ends.
pt_return(t) ==
    /\ At(t, "pt_return")
    /\ Finish(t)
    /\ UNCHANGED <<connFields, connection_lock, limits, rmFields, rmGhost, driver, exited>>

\* ------------------------------------------------------------------ specification
ConnectStep(t) ==
    \/ connect_open(t) \/ connect_111(t) \/ connect_112(t) \/ connect_113(t)
    \/ connect_114(t) \/ connect_except(t)

DisconnectStep(t) ==
    \/ disconnect_check(t) \/ disconnect_exit(t) \/ disconnect_140(t)
    \/ disconnect_141(t) \/ disconnect_142(t) \/ disconnect_143(t)

CommandStep(t) ==
    \/ cmd_check_connected(t) \/ cmd_check_api(t) \/ cmd_clamp(t) \/ cmd_load(t)
    \/ cmd_call(t)

CleanupStep ==
    \/ cleanup(Main) \/ cl_acquire(Main) \/ cl_check(Main) \/ DisconnectStep(Main)
    \/ cl_finally(Main) \/ cl_exit(Main)

Next ==
    \/ \E t \in AutoConnectTasks :
          \/ handle_connect(t) \/ handle_check_connection(t) \/ aac_acquire(t)
          \/ aac_check(t) \/ aac_scan(t) \/ ConnectStep(t) \/ aac_report(t)
          \/ aac_finally(t)
    \/ \E t \in DisconnectHandlers :
          \/ handle_disconnect(t) \/ hd_acquire(t) \/ DisconnectStep(t) \/ hd_report(t)
          \/ hd_finally(t)
    \/ \E t \in CommandThreads : handle_command(t) \/ CommandStep(t) \/ cmd_report(t)
    \/ CleanupStep

Spec == Init /\ [][Next]_vars

\* The users of the connection lock alone, with the shutdown cleanup scheduled
\* fairly: the main thread keeps running its signal handler, a timed acquire
\* returns when its time is up, and the driver's close returns or throws.  No
\* other thread is required to make progress.
NextLock ==
    \/ \E t \in AutoConnectTasks :
          \/ handle_connect(t) \/ handle_check_connection(t) \/ aac_acquire(t)
          \/ aac_check(t) \/ aac_scan(t) \/ ConnectStep(t) \/ aac_report(t)
          \/ aac_finally(t)
    \/ \E t \in DisconnectHandlers :
          \/ handle_disconnect(t) \/ hd_acquire(t) \/ DisconnectStep(t) \/ hd_report(t)
          \/ hd_finally(t)
    \/ CleanupStep

LiveSpec == Init /\ [][NextLock]_vars /\ WF_vars(CleanupStep)

\* The random movement, from the state a successful auto-connect leaves.
InitConnected ==
    /\ sphero_toy = "SB-1"
    /\ sphero_api = Session(1)
    /\ is_connected = TRUE
    /\ api_instance = Session(1)
    /\ connection_lock = NoHolder
    /\ max_speed = 30
    /\ max_brightness = 50
    /\ stop_random_movement = FALSE
    /\ is_active = FALSE
    /\ random_movement_thread = None
    /\ openSessions = {Session(1)}
    /\ nextSession = 2
    /\ pc = [t \in Threads |-> "idle"]
    /\ ret = [t \in Threads |-> "idle"]
    /\ loc = [t \in Threads |-> NoLoc]
    /\ res = [t \in Threads |-> NoRes]
    /\ raised = [t \in Threads |-> FALSE]
    /\ emits = [t \in Threads |-> {}]
    /\ exited = FALSE
    /\ superseded = {}
    /\ survived = {}

LoopStep(l) ==
    \/ rm_begin(l) \/ rm_top(l) \/ rm_connected(l) \/ rm_api(l) \/ rm_roll(l)
    \/ rm_sleep(l) \/ rm_after_spin(l) \/ rm_exit(l) \/ rm_finished(l) \/ rm_fatal(l)
    \/ rm_return(l) \/ CommandStep(l)

NextAuto ==
    \/ \E t \in StartHandlers :
          \/ handle_start_random_movement(t) \/ start_222(t) \/ start_228(t)
          \/ start_229(t) \/ start_spawn(t)
    \/ \E l \in LoopTasks : LoopStep(l)

SpecAuto == InitConnected /\ [][NextAuto]_vars

\* The same, with every loop task scheduled fairly: a background task that can
\* take a step is not held back forever.  The start handler is not required to
\* run.
LiveAuto == InitConnected /\ [][NextAuto]_vars /\ \A l \in LoopTasks : WF_vars(LoopStep(l))

\* One caller that changes the ceilings and sends commands, one call after the
\* other, to the connected device.
NextLimits ==
    \E t \in CommandThreads :
        \/ set_max_speed(t) \/ set_max_brightness(t) \/ set_brightness_limit(t)
        \/ handle_client_command(t) \/ CommandStep(t) \/ cmd_report(t)

SpecLimits == InitConnected /\ [][NextLimits]_vars

StopStep(t) ==
    \/ handle_stop_random_movement(t) \/ stop_270(t) \/ CommandStep(t)
    \/ stop_278(t) \/ stop_report(t)

\* Start and stop requests beside the loop tasks, with the device connected or
\* never connected.
NextStop ==
    \/ \E t \in StartHandlers :
          \/ handle_start_random_movement(t) \/ start_222(t) \/ start_228(t)
          \/ start_229(t) \/ start_spawn(t) \/ start_report(t)
    \/ \E l \in LoopTasks : LoopStep(l)
    \/ \E t \in StopHandlers : StopStep(t)

SpecStop == (Init \/ InitConnected) /\ [][NextStop]_vars

\* The operations that need a session, each called from its handler, with the
\* device connected or never connected: one client that sends a command, starts
\* the random movement or leaves, and sends its next request when the handler
\* of the last one has returned; it asks for a start when no loop task is
\* alive.  The loop task runs beside the handlers.
HandlersIdle ==
    \A t \in CommandThreads \cup DisconnectHandlers \cup StartHandlers : pc[t] = "idle"

NextCalls ==
    \/ \E t \in CommandThreads :
          \/ HandlersIdle /\ handle_client_command(t)
          \/ CommandStep(t) \/ cmd_report(t)
    \/ \E t \in DisconnectHandlers :
          \/ HandlersIdle /\ handle_disconnect(t)
          \/ hd_acquire(t) \/ DisconnectStep(t) \/ hd_report(t) \/ hd_finally(t)
    \/ \E t \in StartHandlers :
          \/ HandlersIdle /\ Running = {} /\ handle_start_random_movement(t)
          \/ start_222(t) \/ start_228(t) \/ start_229(t) \/ start_spawn(t)
          \/ start_report(t)
    \/ \E l \in LoopTasks : LoopStep(l)

SpecCalls == (Init \/ InitConnected) /\ [][NextCalls]_vars

\* One client that sends transcripts, one after the other, to a device that is
\* connected or was never connected.
NextTranscript ==
    \E t \in CommandThreads :
        \/ handle_openai_response(t) \/ pt_check(t) \/ pt_next_set(t) \/ pt_next_cmd(t)
        \/ CommandStep(t) \/ pt_return(t)

SpecTranscript == (Init \/ InitConnected) /\ [][NextTranscript]_vars

\* A client that leaves while the random movement runs: the disconnect handler,
\* start requests and the loop tasks, from the connected state.  The client
\* sends a request when the handler of its last one has returned, and asks for
\* a start when no loop task is alive.  The loop tasks and a start handler that
\* is under way are scheduled fairly; nobody is required to send a request.
StartRun(t) ==
    \/ start_222(t) \/ start_228(t) \/ start_229(t) \/ start_spawn(t) \/ start_report(t)

NextLost ==
    \/ \E t \in DisconnectHandlers :
          \/ HandlersIdle /\ handle_disconnect(t)
          \/ hd_acquire(t) \/ DisconnectStep(t) \/ hd_report(t) \/ hd_finally(t)
    \/ \E t \in StartHandlers :
          \/ HandlersIdle /\ Running = {} /\ handle_start_random_movement(t)
          \/ StartRun(t)
    \/ \E l \in LoopTasks : LoopStep(l)

LiveLost ==
    /\ InitConnected /\ [][NextLost]_vars
    /\ \A l \in LoopTasks : WF_vars(LoopStep(l))
    /\ \A t \in StartHandlers : WF_vars(StartRun(t))

\* ------------------------------------------------------------------ properties
ConnectPcs ==
    {"connect_open", "connect_111", "connect_112", "connect_113", "connect_114",
     "connect_except"}
DisconnectPcs ==
    {"disconnect_check", "disconnect_exit", "disconnect_140", "disconnect_141",
     "disconnect_142", "disconnect_143"}
\* The scan/connect sequence of attempt_auto_connect, from the lock to the release.
ScanConnectPcs == {"aac_check", "aac_scan", "aac_report", "aac_finally"} \cup ConnectPcs
FieldsReset ==
    /\ sphero_toy = None
    /\ sphero_api = None
    /\ api_instance = None
    /\ ~is_connected

\* C1: at most one driver session is open in every reachable state, and
\* attempt_auto_connect is never about to open a session (at connect_to_sphero's
\* open call) while a session opened earlier is still open.
C1_AtMostOneSession ==
    /\ Cardinality(openSessions) <= 1
    /\ \A t \in AutoConnectTasks : pc[t] = "connect_open" => openSessions = {}

\* A second session has been opened after the first was closed, and one more
\* auto-connect task holds the lock and finds the connection up.
C1_Witness ==
    \E t \in AutoConnectTasks :
        /\ pc[t] = "aac_check"
        /\ is_connected
        /\ nextSession > 2
        /\ Cardinality(openSessions) = 1

\* C2: in every state the connected flag is up exactly when a session reference is
\* present in sphero_api.
C2_ConnectedIffSession == is_connected <=> (sphero_api # None)

\* C3: no command reaches the driver at a moment when the connected flag is down.
C3_NoCallWhileDisconnected == \A t \in Threads : loc[t].sent # "disconnected"

\* C4: when disconnect_sphero has returned from a connected device (any result but
\* "Not connected"), the flag is down and the session, api and toy references are
\* cleared, whether the close call returned or threw.
C4_DisconnectAlwaysClears ==
    \A t \in DisconnectHandlers :
        (pc[t] = "hd_report" /\ res[t].msg # "Not connected to any Sphero") => FieldsReset

\* C5: when the driver failed to open the session, connect_to_sphero has returned
\* failure and every connection field is reset.
C5_FailedConnectResets ==
    \A t \in AutoConnectTasks :
        (pc[t] = "aac_report" /\ loc[t].api = None) => (~res[t].ok /\ FieldsReset)

\* connect_to_sphero has returned after the driver threw, in a process that had
\* been connected before.
C5_Witness ==
    \E t \in AutoConnectTasks :
        pc[t] = "aac_report" /\ loc[t].api = None /\ ~res[t].ok /\ nextSession > 1

\* C6: two attempt_auto_connect runs are never both inside the scan/connect
\* sequence, and a run that finds the lock taken returns in that very step, leaving
\* the connection fields, the lock and the driver's sessions as they were.
C6_OneAutoConnect ==
    /\ [](\A t, u \in AutoConnectTasks :
            (pc[t] \in ScanConnectPcs /\ pc[u] \in ScanConnectPcs) => t = u)
    /\ [][\A t \in AutoConnectTasks :
            (pc[t] = "aac_acquire" /\ connection_lock # NoHolder /\ pc'[t] # pc[t] /\ ~exited')
                => (pc'[t] = "idle" /\ UNCHANGED <<connFields, connection_lock, driver>>)]_vars

\* One run is scanning while the other is about to try the lock.
C6_Witness ==
    \E t, u \in AutoConnectTasks :
        pc[t] = "aac_scan" /\ pc[u] = "aac_acquire" /\ connection_lock = t

\* C7: a thread inside connect_to_sphero or disconnect_sphero holds the connection
\* lock, so at most one of them is executing at any moment.
C7_TransitionsSerialized ==
    \A t \in Threads : pc[t] \in (ConnectPcs \cup DisconnectPcs) => connection_lock = t

\* The disconnect handler is closing the session while an auto-connect task and
\* the shutdown cleanup are both at their acquire.
C7_Witness ==
    /\ \E t \in DisconnectHandlers : pc[t] = "disconnect_exit"
    /\ \E t \in AutoConnectTasks : pc[t] = "aac_acquire"
    /\ pc[Main] = "cl_acquire"

\* C8: a thread whose lock-taking operation is over (the task or handler has
\* returned or its exception has left it, cleanup has reached its exit) does not
\* hold the connection lock.
C8_LockReleased ==
    /\ \A t \in AutoConnectTasks \cup DisconnectHandlers :
          pc[t] = "idle" => connection_lock # t
    /\ pc[Main] \in {"idle", "cl_exit", "exited"} => connection_lock # Main

\* An exception is leaving attempt_auto_connect through its finally block, or the
\* disconnect handler through its own, with the lock still held.
C8_Witness ==
    /\ \E t \in AutoConnectTasks : pc[t] = "aac_finally" /\ raised[t] /\ connection_lock = t
    /\ \E t \in DisconnectHandlers : pc[t] = "idle"

\* C9: once cleanup is waiting for the connection lock it reaches the process exit,
\* whatever the lock holder does.
C9_CleanupExits == (pc[Main] = "cl_acquire") ~> exited

\* The wait of cleanup has run out with the lock held by an auto-connect task
\* stuck in its scan; cleanup goes to the exit without the lock.
C9_Witness ==
    /\ pc[Main] = "cl_exit"
    /\ \E t \in AutoConnectTasks : connection_lock = t /\ pc[t] = "aac_scan"

\* C10: a loop superseded by a later start does not go on iterating beside the
\* loop that start created: never have both passed the stop-flag check at the top
\* of the loop since that start.
C10_OneLoop ==
    \A old \in superseded :
        ~(old \in survived /\ \E new \in LoopTasks \ superseded : new \in survived)

\* C11: a run that a later start() superseded eventually observes the stop request
\* and ends: whenever a loop task is among those a start found alive, that task
\* is eventually over.
C11_SupersededExits == \A l \in LoopTasks : (l \in superseded) ~> (pc[l] = "idle")

\* The positions of stop_random_movement_command after its roll(0, 0, 0) returned.
StopAfterRoll == {"stop_278", "stop_report"}

\* C12: every stop() made while the device is connected has itself sent
\* roll(0, 0, 0) to the driver by the time it goes on to line 278, whether a loop
\* is running, is already over or was never started.
C12_StopIssuesRoll ==
    \A t \in StopHandlers :
        (pc[t] \in StopAfterRoll /\ is_connected)
            => (loc[t].fwd = Cmd("roll", 0, 0, 0) /\ loc[t].sent = "connected")

C12_Witness ==
    \E t \in StopHandlers :
        /\ pc[t] = "stop_report" /\ loc[t].sent = "connected"
        /\ Running = {} /\ random_movement_thread = None

\* A command that sets the device moving: a roll with a speed above zero, or a spin.
Moves(cmd) == cmd.op = "spin" \/ (cmd.op = "roll" /\ cmd.b > 0)

\* stop() has sent its override roll to the connected device and no start() has
\* lowered the stop flag since.
StopOverrideIssued ==
    /\ stop_random_movement
    /\ \A s \in StartHandlers : pc[s] = "idle"
    /\ \E t \in StopHandlers : pc[t] \in StopAfterRoll /\ loc[t].sent = "connected"

\* C13: once stop() has issued its override stop command (connected, no later
\* start), no loop task hands a further movement command to the driver.
C13_NoMovementAfterStop ==
    [][\A l \in LoopTasks :
          (pc[l] = "cmd_call" /\ pc'[l] # "cmd_call" /\ Moves(loc[l].fwd))
              => ~StopOverrideIssued]_vars

\* C14: on every path on which stop_random_movement_command returns to its
\* handler, is_active is false at the return, connected or not and whether the
\* stop roll succeeded or failed.
C14_StopClearsActive ==
    [][\A t \in StopHandlers :
          (pc[t] # "stop_report" /\ pc'[t] = "stop_report") => ~is_active']_vars

C14_Witness ==
    \E t \in StopHandlers :
        /\ pc[t] = "stop_report" /\ ~is_active /\ is_connected
        /\ \E l \in LoopTasks : pc[l] \notin {"idle", "rm_done"}

\* C15: whenever a loop task ends, by the stop flag, a lost connection or a fatal
\* error, it has cleared is_active, has emitted the terminal
\* random_movement_status {active: false} and, the device still being connected,
\* has called roll(0, 0, 0).
C15_ExitPath ==
    [][\A l \in LoopTasks :
          (pc[l] # "rm_done" /\ pc'[l] = "rm_done")
              => /\ ~is_active'
                 /\ "random_movement_status:false" \in emits'[l]
                 /\ (is_connected' /\ sphero_api' # None)
                        => loc'[l].cmd = Cmd("roll", 0, 0, 0)]_vars

\* C16: every roll handed to the driver has its heading in 0..359 and its speed in
\* 0..max_speed; a negative requested speed goes out as 0 and one above max_speed
\* as max_speed.
C16_RollInRange ==
    \A t \in Threads :
        (pc[t] = "cmd_call" /\ loc[t].fwd.op = "roll")
            => /\ loc[t].fwd.a \in 0..359
               /\ loc[t].fwd.b \in 0..max_speed
               /\ (loc[t].cmd.op = "roll" /\ loc[t].cmd.b < 0) => loc[t].fwd.b = 0
               /\ (loc[t].cmd.op = "roll" /\ loc[t].cmd.b > max_speed)
                      => loc[t].fwd.b = max_speed

C16_Witness ==
    \E t \in Threads :
        /\ pc[t] = "cmd_call" /\ loc[t].cmd = Cmd("roll", 400, 40, 10)
        /\ max_speed = 30 /\ loc[t].fwd = Cmd("roll", 359, 30, 10)

\* C17: every colour channel handed to the driver equals the clamped channel
\* times max_brightness over 255, truncated to an integer.
C17_ScaledExactly ==
    \A t \in Threads :
        (pc[t] = "cmd_call" /\ loc[t].fwd.op = "set_main_led")
            => /\ loc[t].fwd.a = (ClampChannel(loc[t].cmd.a) * max_brightness) \div 255
               /\ loc[t].fwd.b = (ClampChannel(loc[t].cmd.b) * max_brightness) \div 255
               /\ loc[t].fwd.c = (ClampChannel(loc[t].cmd.c) * max_brightness) \div 255

\* C18: the ceilings are those current at dispatch: every colour channel handed to
\* the driver is at most the present max_brightness and every speed at most the
\* present max_speed, whatever ceiling changes came before the command.
C18_CeilingAtDispatch ==
    \A t \in Threads :
        pc[t] = "cmd_call"
            => /\ loc[t].fwd.op = "set_main_led"
                     => /\ loc[t].fwd.a <= max_brightness
                        /\ loc[t].fwd.b <= max_brightness
                        /\ loc[t].fwd.c <= max_brightness
               /\ loc[t].fwd.op = "roll" => loc[t].fwd.b <= max_speed

C18_Witness ==
    \E t \in Threads :
        /\ pc[t] = "cmd_call" /\ loc[t].cmd = Cmd("set_main_led", -7, 51, 300)
        /\ max_brightness = 20 /\ loc[t].fwd = Cmd("set_main_led", 0, 4, 20)

\* C19: max_speed and max_brightness are within 0..255 in every reachable state.
C19_LimitsInRange == max_speed \in 0..255 /\ max_brightness \in 0..255

C19_Witness == max_speed = 255 /\ max_brightness = 0

\* The positions inside set_main_led, roll, spin and set_heading.
CommandPcs == {"cmd_check_connected", "cmd_check_api", "cmd_clamp", "cmd_load", "cmd_call"}

\* C20: no step of a command, a driver error included, changes the connection
\* fields or the driver's sessions; every change of the connection fields is a
\* step of connect_to_sphero or disconnect_sphero (the process exit aside).
C20_CommandKeepsConnection ==
    [][/\ \A t \in Threads :
             (pc[t] \in CommandPcs /\ pc'[t] # pc[t] /\ ~exited')
                 => UNCHANGED <<connFields, driver>>
       /\ (connFields' # connFields /\ ~exited')
             => \E t \in Threads :
                    pc[t] \in (ConnectPcs \cup DisconnectPcs) /\ pc'[t] # pc[t]]_vars

C20_Witness ==
    \E t \in CommandThreads :
        /\ pc[t] = "cmd_report" /\ ~res[t].ok /\ loc[t].sent = "connected"
        /\ is_connected /\ sphero_api = loc[t].api /\ api_instance = loc[t].api

\* C21: an operation that needs a session and finds the connected flag false
\* (set_main_led, roll, spin, set_heading, disconnect_sphero and
\* start_random_movement read the flag in their first statement) returns a
\* failure with a not-connected message, has made no driver call, starts no
\* background task and leaves the connection fields and the fields of the random
\* movement as they were.
NotConnectedMessages ==
    {"Not connected to any Sphero", "Cannot start random movement: Not connected to Sphero"}

RefusedHere(t) ==
    /\ ~is_connected
    /\ pc'[t] # pc[t]
    /\ \/ pc[t] \in {"cmd_check_connected", "disconnect_check"}
       \/ t \in StartHandlers /\ pc[t] = "idle"

C21_NotConnectedRejected ==
    [][\A t \in Threads :
          RefusedHere(t) =>
             /\ ~res'[t].ok
             /\ res'[t].msg \in NotConnectedMessages
             /\ loc'[t].sent = "no" /\ loc'[t].calls = 0
             /\ {l \in LoopTasks : pc'[l] # "idle"} = Running
             /\ UNCHANGED <<connFields, rmFields, openSessions>>]_vars

\* A spin sent after the client's disconnect request closed the session has just
\* been refused, with a loop task still alive.
C21_Witness ==
    /\ ~is_connected /\ openSessions = {} /\ nextSession = 2
    /\ Running # {}
    /\ \E t \in CommandThreads :
          /\ pc[t] = "cmd_report" /\ res[t].msg = "Not connected to any Sphero"
          /\ loc[t].cmd.op = "spin" /\ loc[t].sent = "no"
\* C22: a command returns a (success flag, message) pair and never raises; it
\* calls the driver at most once, exactly once when it got as far as the driver,
\* and a driver that throws makes it return a failure with the error message.
C22_ResultNeverRaises ==
    /\ \A t \in Threads : loc[t].calls <= 1
    /\ \A t \in CommandThreads :
          pc[t] = "cmd_report" =>
             /\ res[t] # NoRes /\ res[t].ok \in BOOLEAN
             /\ ~raised[t]
             /\ loc[t].sent # "no" <=> loc[t].calls = 1
             /\ res[t].ok => loc[t].calls = 1
             /\ (loc[t].calls = 1 /\ ~res[t].ok) => res[t].msg = "Error"

\* The driver threw during a roll: one call, a failure result, nothing raised.
C22_Witness ==
    \E t \in CommandThreads :
       /\ pc[t] = "cmd_report" /\ loc[t].cmd.op = "roll"
       /\ loc[t].calls = 1 /\ ~res[t].ok /\ res[t].msg = "Error" /\ ~raised[t]
\* C23: the transcript "roll(10, 50, 1.0); spin(90, 2.0)", processed while the
\* device is connected, hands exactly roll(10, 50, 1.0) and then spin(90, 2.0) to
\* SpheroConnection.
C23_FunctionCallsDispatched ==
    \A t \in CommandThreads :
       (pc[t] = "pt_return" /\ is_connected /\ loc[t].text = FunctionCallTranscript)
          => loc[t].log = <<Cmd("roll", 10, 50, 10), Cmd("spin", 90, 20, 0)>>

\* C24: an empty transcript, and a transcript without a command the processor
\* knows (processed while connected, every brace-delimited segment decoding),
\* hands no command to SpheroConnection and is reported as a success; a
\* transcript without a known command never hands over a command at all.
KnownNames == {"roll", "spin", "set_main_led", "set_heading", "roll_bad"}
NoKnownCommand(text) == \A k \in 1..Len(text) : text[k] \notin KnownNames
AllDecode(text) ==
    \A k \in 1..Len(split_json_objects(text)) : json_loads(split_json_objects(text)[k]).ok

RECURSIVE BraceDepth(_, _)
BraceDepth(text, k) ==
    IF k = 0 THEN 0
    ELSE BraceDepth(text, k - 1)
           + (IF text[k] = "{" THEN 1 ELSE IF text[k] = "}" THEN -1 ELSE 0)

Unbalanced(text) ==
    \/ BraceDepth(text, Len(text)) # 0
    \/ \E k \in 1..Len(text) : BraceDepth(text, k) < 0

C25_UnbalancedIsFailure ==
    \A t \in CommandThreads :
       (pc[t] = "pt_return" /\ is_connected /\ Unbalanced(loc[t].text)) => ~res[t].ok

\* C26: when process_transcript returns a parse or processing failure, it has
\* handed no command of that transcript to SpheroConnection.
C26_FailureMeansNoCommand ==
    \A t \in CommandThreads :
       ( /\ pc[t] = "pt_return"
         /\ res[t].msg \in {"Error parsing command data", "Error processing commands"} )
          => loc[t].log = <<>>

\* C27: with the device disconnected, a transcript that is not empty is never
\* split or decoded, no command of it is handed to SpheroConnection, and
\* process_transcript returns the one not-connected failure.
C27_DisconnectedRefused ==
    \A t \in CommandThreads :
       (~is_connected /\ loc[t].text # <<>>) =>
          /\ loc[t].log = <<>>
          /\ pc[t] \in {"pt_check", "pt_return"}
          /\ pc[t] = "pt_return" =>
                res[t] = [ok |-> FALSE,
                          msg |-> "Livvy wants to move, but Sphero is not connected."]

\* A transcript with a roll and a spin has been refused.
C27_Witness ==
    \E t \in CommandThreads :
       /\ pc[t] = "pt_return" /\ ~is_connected
       /\ loc[t].text = <<"{", "{", "roll", "}", "{", "spin", "}", "}">>
       /\ ~res[t].ok /\ loc[t].log = <<>>
\* C28: after a scan that returned the empty list, attempt_auto_connect has
\* broadcast 'No Sphero toys found.' and, unless that emit threw, connection
\* status false; it has not called connect_to_sphero, the device is not
\* connected, and all that is left is the finally block that releases the lock
\* the task still holds; nothing is raised but by a throwing emit.
EmptyScan(t) == loc[t].scanned /\ loc[t].toys = <<>>

OutcomeStatuses ==
    {"status:No Sphero toys found.", "status:Connected", "status:Connection error"}

C29_OutcomeEmitted ==
    \A t \in AutoConnectTasks :
       ( /\ pc[t] = "aac_finally"
         /\ "status:Scanning" \in emits[t]
         /\ ~(raised[t] /\ loc[t].scanned) )
          => emits[t] \cap OutcomeStatuses # {}

\* C30: a failure result of a command or of a connect or disconnect is never
\* dropped without its message having been broadcast: the thread that holds it
\* is in a handler about to emit it, or emits it in the step that drops it.
ReportPcs == {"cmd_report", "hd_report", "aac_report", "stop_report", "start_report"}

C30_FailureNeverSilent ==
    [][\A t \in Threads :
          (res[t] # NoRes /\ ~res[t].ok /\ res'[t] # res[t])
             => \/ pc[t] \in ReportPcs
                \/ ("status:" \o res[t].msg) \in emits'[t]]_vars
C32_FailureKeepsLooping ==
    [][\A l \in LoopTasks :
          /\ ( /\ pc[l] \in {"rm_roll", "rm_sleep", "rm_after_spin"}
               /\ res[l] # NoRes /\ ~res[l].ok
               /\ pc'[l] # pc[l] )
                => /\ pc'[l] \in {"rm_top", "cmd_check_connected"}
                   /\ is_active' = is_active
          /\ (pc[l] # "rm_exit" /\ pc'[l] = "rm_exit")
                => stop_random_movement \/ ~is_connected \/ sphero_api = None]_vars

\* The driver threw during the roll of an iteration, and the task is at its
\* pause with the random movement still active.
C32_Witness ==
    \E l \in LoopTasks :
       /\ pc[l] = "rm_sleep" /\ loc[l].cmd.op = "roll"
       /\ ~res[l].ok /\ res[l].msg = "Error"
       /\ is_active /\ is_connected /\ ~stop_random_movement
\* C33: split_json_objects returns, from left to right, exactly the substrings
\* that run from a step of the depth counter from 0 to 1 to the matching step
\* from 1 to 0: every segment starts with "{", ends with "}" and has balanced
\* braces, no two overlap, and no other text is in a segment.
Spans(text) ==
    { sp \in (1..Len(text)) \X (1..Len(text)) :
         /\ text[sp[1]] = "{" /\ BraceDepth(text, sp[1] - 1) = 0
         /\ sp[2] > sp[1] /\ text[sp[2]] = "}" /\ BraceDepth(text, sp[2]) = 0
         /\ \A m \in sp[1]..(sp[2] - 1) : BraceDepth(text, m) >= 1 }

SplitIsSpans(text) ==
    LET r == split_json_objects(text)
        S == Spans(text)
    IN  /\ Len(r) = Cardinality(S)
        /\ \A sp \in S :
              r[Cardinality({q \in S : q[1] < sp[1]}) + 1] = SubSeq(text, sp[1], sp[2])
        /\ \A p, q \in S : p # q => (p[2] < q[1] \/ q[2] < p[1])
        /\ \A k \in 1..Len(r) :
              /\ Head(r[k]) = "{" /\ r[k][Len(r[k])] = "}"
              /\ ~Unbalanced(r[k])

C33_SegmentsAreSpans ==
    \A t \in CommandThreads :
       /\ SplitIsSpans(loc[t].text)
       /\ pc[t] \in {"pt_next_set", "pt_next_cmd"} \cup CommandPcs
            => \E k \in 0..Len(split_json_objects(loc[t].text)) :
                  loc[t].sets = SubSeq(split_json_objects(loc[t].text), k + 1,
                                       Len(split_json_objects(loc[t].text)))

\* A text with a stray closing brace in front has been split: the segment is the
\* inner object, and the braces around it are in no segment.
C33_Witness ==
    \E t \in CommandThreads :
       /\ pc[t] = "pt_next_set"
       /\ loc[t].text = <<"}", "{", "{", "roll", "}", "}">>
       /\ loc[t].sets = << <<"{", "roll", "}">> >>
\* The calls process_command makes for a list of command names, in order.
RECURSIVE CallsOf(_)
CallsOf(names) ==
    IF names = <<>> THEN <<>>
    ELSE IF process_command(Head(names)) = NoCmd THEN CallsOf(Tail(names))
    ELSE <<process_command(Head(names))>> \o CallsOf(Tail(names))

\* The calls for the command sets that decode, those after one that does not
\* decode included.
RECURSIVE CallsOfDecodable(_)
CallsOfDecodable(sets) ==
    IF sets = <<>> THEN <<>>
    ELSE CallsOf(json_loads(Head(sets)).commands) \o CallsOfDecodable(Tail(sets))

\* The calls for the command sets in front of the first one that does not
\* decode.
RECURSIVE CallsUntilUndecodable(_)
CallsUntilUndecodable(sets) ==
    IF sets = <<>> \/ ~json_loads(Head(sets)).ok THEN <<>>
    ELSE CallsOf(json_loads(Head(sets)).commands) \o CallsUntilUndecodable(Tail(sets))

WellFormedParameters(text) == \A k \in 1..Len(text) : text[k] # "roll_bad"

ReleasePcs == {"aac_finally", "hd_finally", "cl_finally"}

C36_ReleasedByHolderOnce ==
    /\ [](\A t \in Threads : pc[t] \in ReleasePcs => connection_lock = t)
    /\ [][(connection_lock # NoHolder /\ connection_lock' # connection_lock /\ ~exited')
            => /\ connection_lock' = NoHolder
               /\ pc[connection_lock] \in ReleasePcs
               /\ pc'[connection_lock] \notin ReleasePcs]_vars

\* An auto-connect task is about to release while the disconnect handler and
\* the cleanup wait for the lock; the other task found it taken and returned.
C36_Witness ==
    \E t \in AutoConnectTasks :
       /\ pc[t] = "aac_finally" /\ connection_lock = t
       /\ \A u \in AutoConnectTasks \ {t} : pc[u] = "idle"
       /\ \E d \in DisconnectHandlers : pc[d] = "hd_acquire"
       /\ pc[Main] = "cl_acquire"
\* C37: while the loop task created by the most recent start is running, and no
\* stop and no disconnect has been requested, is_active is true: the exit of an
\* earlier task does not clear the flag that the later start has set.
C37_ActiveWhileLatestRuns ==
    \A l \in LoopTasks :
       (random_movement_thread = l /\ pc[l] \notin {"idle", "rm_done"}) => is_active

\* C38: for every interleaving of disconnect_sphero with the commands, no
\* command is forwarded to a driver session on which close (__exit__) has
\* already been invoked: the session a driver call goes to is still open.
C38_NoCallOnClosedSession ==
    [][\A t \in Threads :
          (pc[t] = "cmd_call" /\ pc'[t] # "cmd_call" /\ ~exited')
             => loc[t].api \in openSessions]_vars

\* ------------------------------------------------------------------ status broadcasts
\* handle_check_connection, line 62, a statement at a time: the argument of the
\* emit reads the connected flag, without the lock.
hcc_read(t) ==
    /\ At(t, "idle")
    /\ loc' = [loc EXCEPT ![t].seen = ConnStatus(is_connected)]
    /\ Goto(t, "hcc_emit")
    /\ UNCHANGED <<connFields, connection_lock, limits, rmFields, rmGhost, driver,
                   ret, res, raised, emits, exited>>

\* Line 62: the value read is broadcast; an emit that throws ends the handler.
hcc_emit(t) ==
    /\ At(t, "hcc_emit")
    /\ \/ /\ Emit(t, {loc[t].seen})
          /\ Goto(t, "hcc_test")
          /\ UNCHANGED <<ret, loc, res, raised>>
       \/ Finish(t)
    /\ UNCHANGED <<connFields, connection_lock, limits, rmFields, rmGhost, driver, exited>>

\* Lines 63-66: the flag is read again; when it is down the auto-connect task is
\* started, else the handler returns.
hcc_test(t) ==
    /\ At(t, "hcc_test")
    /\ IF ~is_connected
         THEN Goto(t, "aac_acquire") /\ UNCHANGED <<ret, loc, res, raised, emits>>
         ELSE Finish(t)
    /\ UNCHANGED <<connFields, connection_lock, limits, rmFields, rmGhost, driver, exited>>

\* A client that asks for the status beside the clients that connect and
\* disconnect.
NextStatus ==
    \/ \E t \in StatusHandlers :
          \/ hcc_read(t) \/ hcc_emit(t) \/ hcc_test(t) \/ aac_acquire(t)
          \/ aac_check(t) \/ aac_scan(t) \/ ConnectStep(t) \/ aac_report(t)
          \/ aac_finally(t)
    \/ \E t \in AutoConnectTasks :
          \/ handle_connect(t) \/ aac_acquire(t) \/ aac_check(t) \/ aac_scan(t)
          \/ ConnectStep(t) \/ aac_report(t) \/ aac_finally(t)
    \/ \E t \in DisconnectHandlers :
          \/ handle_disconnect(t) \/ hd_acquire(t) \/ DisconnectStep(t) \/ hd_report(t)
          \/ hd_finally(t)

SpecStatus == Init /\ [][NextStatus]_vars

\* C39: whenever the lock is free and no other handler is mid-way, the
\* connection status broadcast last equals the connected flag: the check
\* handler, which read the flag without the lock, never broadcasts a value that
\* a connect or disconnect has made stale in the meantime.
C39_NoStaleStatus ==
    [][\A k \in StatusHandlers :
          (/\ pc[k] = "hcc_emit" /\ pc'[k] = "hcc_test"
           /\ connection_lock = NoHolder
           /\ \A u \in Threads \ {k} : pc[u] = "idle")
             => loc[k].seen = ConnStatus(is_connected)]_vars
====
